---------------------------- MODULE Spec2Model ----------------------------
(***************************************************************************)
(* A state-machine model of src/analysis_ml_methods.py: the script that    *)
(* runs post-double-selection LASSO and then an X-Learner on the prepared  *)
(* RLMS sample.  The state is the script's variables; every action is one  *)
(* block of the script, taken in program order (pc).                       *)
(*                                                                         *)
(* Numeric conventions.  LASSO coefficients are integers in units of 1e-7, *)
(* so the code's threshold 1e-6 is CoefThreshold = 10.  Probabilities are  *)
(* integers in units of 1/PScale, and tau_hat is kept in the same units    *)
(* (tau_hat = PScale * the code's value).  Column indices are 1-based      *)
(* (the code's are 0-based).                                               *)
(*                                                                         *)
(* The scikit-learn / statsmodels calls are the environment.  Their        *)
(* answers are deterministic in the code (fixed random_state), but not     *)
(* known, so the initial state draws a behaviour `lib` for them from a     *)
(* small family; a fit raises ValueError exactly where the library does    *)
(* (no rows, no columns, a single class for the classifier).  The fold     *)
(* size preconditions of the cross-validation splitters are not modelled.  *)
(*                                                                         *)
(* Randomness.  Every random draw is logged with the seeding of the        *)
(* generator it is taken from: numpy's global generator (np_random), which *)
(* starts from operating-system entropy and is seeded at line 258, or an   *)
(* estimator's own generator built from its random_state.                  *)
(***************************************************************************)
EXTENDS Integers, Sequences, FiniteSets, TLC

\* ------------------------------------------------------------------ bounds
\* Rows of the prepared sample df_clean.
MaxRows == 4
\* The sub-sample size of line 259 (30000 in the code), scaled to the model.
SampleCap == 3
\* Generic extra numeric columns of the wide datasets: with the five core
\* candidates (age, agri, post, age_sq, female) they give 21 candidates,
\* one more than NameCap.
WideCols == 16
\* Resolution of a probability: p is e / PScale with e in 0..PScale.
PScale == 2

\* ------------------------------------------------------- program constants
\* selected_names[:20] in lasso_results (line 234).
NameCap == 20
\* np.abs(coef) > 1e-6 (lines 167, 178), in units of 1e-7.
CoefThreshold == 10
\* hetero_vars = list(...)[:10] (line 285).
HeteroCap == 10

\* ----------------------------------------------------------------- helpers
Range(s) == {s[i] : i \in DOMAIN s}

MinOf(S) == CHOOSE x \in S : \A y \in S : x <= y

MaxOf(S) == CHOOSE x \in S : \A y \in S : x >= y

\* The ascending sequence of the elements of a finite set of integers.
SortedSeq(S) ==
    [i \in 1..Cardinality(S) |->
        CHOOSE x \in S : Cardinality({y \in S : y < x}) = i - 1]

\* s[:n]
Take(s, n) == [i \in 1..(IF Len(s) < n THEN Len(s) ELSE n) |-> s[i]]

\* --------------------------------------------------------------- the data
\* The row profiles of the prepared sample: treatment agri, period post,
\* outcome ln_wage.  The first four have the indicator agri of line 59; the
\* fifth is a row of a file that brings its own agri column (line 57), kept
\* as it is, with a sector code that is neither 0 nor 1.
RowTypes ==
    << [agri |-> 0, post |-> 0, ln_wage |-> 0],
       [agri |-> 0, post |-> 1, ln_wage |-> 1],
       [agri |-> 1, post |-> 0, ln_wage |-> 1],
       [agri |-> 1, post |-> 1, ln_wage |-> 0],
       [agri |-> 2, post |-> 1, ln_wage |-> 1] >>

\* df_clean after reset_index: row i carries its own label rid = i (the
\* identity columns idind/year of the person-year) beside its values, and
\* the interaction agri_post = agri * post of line 68.
MakeRows(types) ==
    [i \in DOMAIN types |->
        [rid |-> i, agri |-> RowTypes[types[i]].agri,
         post |-> RowTypes[types[i]].post,
         agri_post |-> RowTypes[types[i]].agri * RowTypes[types[i]].post,
         ln_wage |-> RowTypes[types[i]].ln_wage]]

\* pandas Series.std() == 0: the sample standard deviation (ddof = 1) is NaN
\* below two rows, and NaN == 0 is False.
StdIsZero(vals) == Len(vals) >= 2 /\ Cardinality(Range(vals)) = 1

\* df[c].values
ColValues(rows, c) == [i \in DOMAIN rows |-> rows[i][c]]

\* A column of df_clean as the selection loops see it: its name, whether its
\* dtype is numeric, whether it holds a missing value, whether std() == 0,
\* and whether it equals the treatment column D row by row.
Col(name, numeric, hasna, std0, copyD) ==
    [name |-> name, numeric |-> numeric, hasna |-> hasna, std0 |-> std0,
     copyD |-> copyD]

\* The columns whose values the model carries, described from the rows.
DataCol(name, rows) ==
    Col(name, TRUE, FALSE, StdIsZero(ColValues(rows, name)),
        ColValues(rows, name) = ColValues(rows, "agri_post"))

\* A column whose values the model does not carry: numeric, complete,
\* varying across rows unless said constant.
PlainCol(name, rows, constant) ==
    Col(name, TRUE, FALSE, constant /\ Len(rows) >= 2, FALSE)

\* Lines 98-100: when the file has educ_cat, one 0/1 column educ_<i> per
\* category found in it; the model's samples hold two categories.
EducDummies(rows, extras) ==
    IF \E i \in DOMAIN extras : extras[i].name = "educ_cat"
    THEN << PlainCol("educ_0", rows, FALSE), PlainCol("educ_1", rows, FALSE) >>
    ELSE << >>

\* df_clean.columns: the file's columns (age, female when the file has it,
\* then the extra ones), then the columns the preparation step appends in
\* order (lines 56-100).  When the file has neither female nor h5 the step
\* creates female as the constant 0 (line 91).
PreparedColumns(rows, extras, femaleCreated) ==
    << PlainCol("age", rows, FALSE) >> \o
    (IF femaleCreated THEN << >> ELSE << PlainCol("female", rows, FALSE) >>) \o
    extras \o
    << DataCol("agri", rows),
       DataCol("post", rows),
       DataCol("agri_post", rows),
       DataCol("ln_wage", rows),
       PlainCol("age_sq", rows, FALSE) >> \o
    (IF femaleCreated THEN << PlainCol("female", rows, TRUE) >> ELSE << >>) \o
    EducDummies(rows, extras)

GenericNames ==
    << "x01", "x02", "x03", "x04", "x05", "x06", "x07", "x08", "x09", "x10",
       "x11", "x12", "x13", "x14", "x15", "x16", "x17", "x18", "x19", "x20",
       "x21", "x22", "x23", "x24" >>

GenericCols(rows, k) == [i \in 1..k |-> PlainCol(GenericNames[i], rows, FALSE)]

RegionCol == Col("region", TRUE, FALSE, FALSE, FALSE)

\* The families of extra file columns: none; a region identifier; a column
\* with missing values, a constant one and a text one; a copy of the
\* treatment column; WideCols generic numeric columns with or without a
\* region identifier; and the education category as a complete numeric code.
ExtraFamilies(rows) ==
    { << >>,
      << RegionCol >>,
      << Col("hours", TRUE, TRUE, FALSE, FALSE),
         Col("wave", TRUE, FALSE, Len(rows) >= 2, FALSE),
         Col("status", FALSE, FALSE, FALSE, FALSE) >>,
      << Col("treated", TRUE, FALSE,
             StdIsZero(ColValues(rows, "agri_post")), TRUE) >>,
      GenericCols(rows, WideCols),
      << RegionCol >> \o GenericCols(rows, WideCols),
      << Col("educ_cat", TRUE, FALSE, StdIsZero(ColValues(rows, "rid")),
             FALSE) >> }

\* ------------------------------------------------------------ the library
\* The shapes a fitted coefficient vector of width k takes in the model
\* (units of 1e-7): all zero; all nonzero but below the threshold; only the
\* first or only the last column; all but the last (which is nonzero below
\* the threshold); all but the first; every column.
CoefPatterns == {"zero", "tiny", "first", "last", "head", "tail", "full"}

CoefVector(pattern, k) ==
    [i \in 1..k |->
        CASE pattern = "zero"  -> 0
          [] pattern = "tiny"  -> IF i % 2 = 1 THEN 5 ELSE -10
          [] pattern = "first" -> IF i = 1 THEN 20 ELSE 0
          [] pattern = "last"  -> IF i = k THEN -20 ELSE 0
          [] pattern = "head"  -> IF i < k THEN 11 ELSE 5
          [] pattern = "tail"  -> IF i > 1 THEN -300 ELSE 0
          [] pattern = "full"  -> IF i % 2 = 1 THEN 20 ELSE -20]

\* A fitted ensemble: the rows it was trained on (matrix x, target y) and
\* its hyper-parameter max_depth.  NoModel is a name not yet bound.
NoModel == [x |-> << >>, y |-> << >>, depth |-> 0]

Fitted(x, y, depth) == [x |-> x, y |-> y, depth |-> depth]

\* The targets of the training rows that share the query row's covariates.
Leaf(model, q) == {model.y[j] : j \in {j \in DOMAIN model.x : model.x[j] = q}}

\* RandomForestRegressor.predict for one row: an average of training
\* targets, so a value between the smallest and the largest of them.  The
\* behaviours: the smallest target, the largest, or the smallest target of
\* the training rows with the query row's covariates.
PredictReg(behaviour, model, q) ==
    CASE behaviour = "lo" -> MinOf(Range(model.y))
      [] behaviour = "hi" -> MaxOf(Range(model.y))
      [] behaviour = "split" ->
            IF Leaf(model, q) = {} THEN MinOf(Range(model.y))
            ELSE MinOf(Leaf(model, q))

\* RandomForestClassifier.predict_proba(...)[:, 1] for one row: the share of
\* class 1, in units of 1/PScale.  The behaviours: an uninformative share,
\* or the class of the training rows with the query row's covariates when
\* they agree.
PredictProba(behaviour, model, q) ==
    CASE behaviour = "half" -> PScale \div 2
      [] behaviour = "split" ->
            IF Leaf(model, q) = {1} THEN PScale
            ELSE IF Leaf(model, q) = {0} THEN 0
            ELSE PScale \div 2

RegBehaviours == {"lo", "hi", "split"}

ClfBehaviours == {"half", "split"}

\* model.predict(X)
PredictAll(behaviour, model, X) ==
    [i \in DOMAIN X |-> PredictReg(behaviour, model, X[i])]

\* ---------------------------------------------------------------- inputs
\* The profiles with a 0/1 treatment indicator.
IndicatorTypes == {k \in DOMAIN RowTypes : RowTypes[k].agri \in {0, 1}}

\* Samples of up to MaxRows rows with a 0/1 indicator, each listed once
\* whatever its row order (the sub-sampling step explores the orders).
RowSamples ==
    UNION { { MakeRows(t) : t \in
                { t \in [1..n -> IndicatorTypes] :
                    \A i \in 1..(n - 1) : t[i] <= t[i + 1] } }
            : n \in 0..MaxRows }

\* A sample from a file with its own agri column: a control row, a treated
\* row and a row with another sector code.
CodedRows == MakeRows(<< 1, 4, 5 >>)

\* One control row before and one treated row after the embargo.
TwoRows == MakeRows(<< 1, 4 >>)

\* Which of the two selection solvers, if any, reaches max_iter = 10000
\* before meeting its tolerance; it then returns its last iterate.
CapOutcomes == {"none", "lasso_y", "lasso_d"}

\* The runs explored: every row sample with the plain columns and every
\* ensemble behaviour, and the two-row sample with every family of extra
\* columns, every pair of coefficient shapes and every solver that may stop
\* at its iteration cap, and the sample with a coded agri column with every
\* ensemble behaviour.
Inputs ==
    { [rows |-> r,
       columns |-> PreparedColumns(r, << RegionCol >>, FALSE),
       lib |-> [cy |-> "full", cd |-> "full", reg |-> g, clf |-> c,
                capped |-> "none"]]
        : r \in RowSamples, g \in RegBehaviours, c \in ClfBehaviours }
    \cup
    { [rows |-> TwoRows,
       columns |-> PreparedColumns(TwoRows, x[1], x[2]),
       lib |-> [cy |-> a, cd |-> b, reg |-> "lo", clf |-> "half",
                capped |-> k]]
        : x \in ExtraFamilies(TwoRows) \X BOOLEAN,
          a \in CoefPatterns, b \in CoefPatterns, k \in CapOutcomes }
    \cup
    { [rows |-> CodedRows,
       columns |-> PreparedColumns(CodedRows, << >>, FALSE),
       lib |-> [cy |-> "full", cd |-> "full", reg |-> g, clf |-> c,
                capped |-> "none"]]
        : g \in RegBehaviours, c \in ClfBehaviours }

\* ------------------------------------------------------------------ state
VARIABLES
    df_clean,        \* the prepared sample: a sequence of rows
    columns,         \* df_clean.columns, as the selection loops see them
    lib,             \* the behaviour of the fitted estimators in this run
    pc,              \* the block of the script to run next
    error,           \* the exception that ended the run, or "none"
    files,           \* the files written under OUTPUT_DIR so far
    control_cols, coef_y, selected_y, coef_d, selected_d,
    selected_union, selected_names, X_final, results, lasso_results,
    sample_idx, df_cf, hetero_vars, X_cf, n_treated, n_control,
    rf_0, rf_1, mu_0, mu_1, D_0, D_1, tau_0_model, tau_1_model,
    ps_model, e_x, tau_0_pred, tau_1_pred, tau_hat,
    importance_df, cf_results,
    fitted,          \* the ensembles whose fit has returned
    trace,           \* the X-Learner blocks run so far, in order
    ds_trace,        \* the double-selection blocks run so far, in order,
                     \* each with the columns of the matrix it was given
    np_random,       \* the seeding of numpy's global generator
    draws,           \* the random draws made so far and their generators
    np_random_calls, \* the calls made on numpy's global generator so far
    warnings_shown   \* the warnings that got past the warnings filter

\* The state of the three RFSD scripts (src/RFSD_data), which classify the
\* firms of one yearly file by their OKVED code.
VARIABLES
    rfsd_pc,             \* the step of the RFSD scripts to run next
    df_firms,            \* the firms of the file: region and okved
    product_category,    \* compute_treatment_intensity.py: a column of df
    is_food_agri,        \* compute_treatment_intensity.py: a column of df
    regional_stats,      \* the counts by region
    regional_shares,     \* the shares by region
    treatment_intensity, \* the two intensity columns by region
    product_mechanism,   \* analyze_subsector_mechanism.py: product_category
    product_revenue      \* analyze_subsector_revenue.py: product

rfsdVars ==
    << rfsd_pc, df_firms, product_category, is_food_agri, regional_stats,
       regional_shares, treatment_intensity, product_mechanism,
       product_revenue >>

inputVars == << df_clean, columns, lib >>

dsVars ==
    << control_cols, coef_y, selected_y, coef_d, selected_d, selected_union,
       selected_names, X_final, results, lasso_results >>

sampleVars == << sample_idx, df_cf, hetero_vars, X_cf, n_treated, n_control >>

outcomeVars == << rf_0, rf_1, mu_0, mu_1, D_0, D_1 >>

effectVars ==
    << tau_0_model, tau_1_model, ps_model, e_x, tau_0_pred, tau_1_pred,
       tau_hat >>

reportVars == << importance_df, cf_results >>

auditVars ==
    << ds_trace, np_random, draws, np_random_calls, warnings_shown >>

mlVars ==
    << inputVars, pc, error, files, dsVars, sampleVars, outcomeVars,
       effectVars, reportVars, fitted, trace, auditVars >>

vars == << mlVars, rfsdVars >>

\* The program order with the effect models fitted before the pseudo-outcomes
\* are built.
StepsEffectBeforePseudo ==
    << "controls", "lasso_y", "lasso_d", "union", "ols", "save_lasso",
       "subsample", "hetero", "fit_mu0", "fit_mu1", "predict_mu",
       "fit_tau0", "fit_tau1", "pseudo", "fit_ps", "combine", "importance",
       "subgroups", "save_cf", "figures", "done" >>

\* The program order with the union formed before the treatment selection.
StepsUnionBeforeTreatment ==
    << "controls", "lasso_y", "union", "lasso_d", "ols", "save_lasso",
       "subsample", "hetero", "fit_mu0", "fit_mu1", "predict_mu", "pseudo",
       "fit_tau0", "fit_tau1", "fit_ps", "combine", "importance",
       "subgroups", "save_cf", "figures", "done" >>

\* The blocks of the script in program order.
Steps ==
    << "controls", "lasso_y", "lasso_d", "union", "ols", "save_lasso",
       "subsample", "hetero", "fit_mu0", "fit_mu1", "predict_mu", "pseudo",
       "fit_tau0", "fit_tau1", "fit_ps", "combine", "importance",
       "subgroups", "save_cf", "figures", "done" >>

\* The block that follows block s.
After(s) == Steps[(CHOOSE i \in DOMAIN Steps : Steps[i] = s) + 1]

NoError == [kind |-> "none", at |-> "none"]

\* numpy's global generator before any np.random.seed call: seeded by the
\* operating system, differently in every process.
Entropy == "entropy"

\* np.random.seed(42) (line 258) and random_state=42 (lines 302-335).
Seed42 == "42"

\* A draw by block `step` from a generator seeded with `seed`.
Draw(step, seed) == [by |-> step, seed |-> seed]

\* check_random_state(random_state): None stands for the global generator,
\* an integer for a fresh generator with that seed.
CheckRandomState(random_state, global) ==
    IF random_state = "None" THEN global ELSE random_state

\* warnings.filterwarnings('ignore') (line 19).
filterwarnings == "ignore"

\* warnings.warn under the filter in force: with 'ignore' the warning is
\* dropped; nothing is printed or kept.
Warn(shown, w) ==
    IF filterwarnings = "ignore" THEN shown ELSE Append(shown, w)

\* The ConvergenceWarning a solver issues when it stops at max_iter.
ConvergenceWarning(step) == [category |-> "ConvergenceWarning", at |-> step]

\* An uncaught exception ends the script in the block that raised it.
Raise(kind, step) ==
    /\ pc' = "failed"
    /\ error' = [kind |-> kind, at |-> step]

Continue(step) ==
    /\ pc' = After(step)
    /\ error' = error

\* The RFSD scripts not started.
RfsdIdle ==
    /\ rfsd_pc = "idle"
    /\ df_firms = << >>
    /\ product_category = << >> /\ is_food_agri = << >>
    /\ regional_stats = << >> /\ regional_shares = << >>
    /\ treatment_intensity = << >>
    /\ product_mechanism = << >> /\ product_revenue = << >>

\* Every name of analysis_ml_methods.py other than the data still unbound.
Unbound ==
    /\ error = NoError
    /\ files = {}
    /\ control_cols = << >> /\ coef_y = << >> /\ selected_y = << >>
    /\ coef_d = << >> /\ selected_d = << >> /\ selected_union = << >>
    /\ selected_names = << >> /\ X_final = << >> /\ results = << >>
    /\ lasso_results = << >>
    /\ sample_idx = << >> /\ df_cf = << >> /\ hetero_vars = << >>
    /\ X_cf = << >> /\ n_treated = 0 /\ n_control = 0
    /\ rf_0 = NoModel /\ rf_1 = NoModel /\ mu_0 = << >> /\ mu_1 = << >>
    /\ D_0 = << >> /\ D_1 = << >>
    /\ tau_0_model = NoModel /\ tau_1_model = NoModel /\ ps_model = NoModel
    /\ e_x = << >> /\ tau_0_pred = << >> /\ tau_1_pred = << >>
    /\ tau_hat = << >>
    /\ importance_df = << >> /\ cf_results = << >>
    /\ fitted = {}
    /\ trace = << >>
    /\ ds_trace = << >>
    /\ np_random = Entropy
    /\ draws = << >>
    /\ np_random_calls = << >>
    /\ warnings_shown = << >>

Init ==
    /\ \E in \in Inputs :
        /\ df_clean = in.rows
        /\ columns = in.columns
        /\ lib = in.lib
    /\ pc = "controls"
    /\ Unbound
    /\ RfsdIdle

\* ------------------------------------------- post-double-selection LASSO
\* The exclusion list without the cluster identifier.
ExcludeColsWithoutRegion ==
    { "ln_wage", "agri_post", "idind", "psu", "id", "inn", "wage_month",
      "wage", "industry", "inwgt", "occupation", "occup",
      "occup08", "h5", "h6", "j1", "j10", "j4_1", "j8", "j11", "educ",
      "marst", "int_y", "interview_month", "h7_1", "h7_2" }

\* Lines 136-139.
exclude_cols ==
    { "ln_wage", "agri_post", "idind", "psu", "id", "inn", "wage_month",
      "wage", "industry", "region", "inwgt", "occupation", "occup",
      "occup08", "h5", "h6", "j1", "j10", "j4_1", "j8", "j11", "educ",
      "marst", "int_y", "interview_month", "h7_1", "h7_2" }

\* The filter of the loop of lines 142-151: a column is skipped (continue)
\* when it is excluded by name, not numeric, incomplete or of zero standard
\* deviation; nothing is raised.
IsControl(c) ==
    /\ c.name \notin exclude_cols
    /\ c.numeric
    /\ ~c.hasna
    /\ ~c.std0

ControlCols(cols) ==
    LET keep == SortedSeq({i \in DOMAIN cols : IsControl(cols[i])})
    IN  [j \in DOMAIN keep |-> cols[keep[j]].name]

\* Lines 131-160: Y, D, control_cols, X and its standardisation.  The
\* scaler refuses a matrix with no rows or no columns.
SelectControls ==
    /\ pc = "controls"
    /\ control_cols' = ControlCols(columns)
    /\ IF Len(df_clean) = 0 \/ Len(ControlCols(columns)) = 0
       THEN Raise("ValueError", "controls")
       ELSE Continue("controls")
    /\ UNCHANGED auditVars
    /\ UNCHANGED rfsdVars
    /\ UNCHANGED << inputVars, files, coef_y, selected_y, coef_d, selected_d,
                    selected_union, selected_names, X_final, results,
                    lasso_results, sampleVars, outcomeVars, effectVars,
                    reportVars, fitted, trace >>

\* The positions of the coefficients that are not exactly zero.
SelectedNonzero(coef) == SortedSeq({i \in DOMAIN coef : coef[i] # 0})

\* np.where(np.abs(coef) > 1e-6)[0]
Selected(coef) == SortedSeq({i \in DOMAIN coef :
                    (IF coef[i] < 0 THEN -coef[i] ELSE coef[i]) > CoefThreshold})

\* Lines 162-171: LassoCV on (X_scaled, Y): cyclic coordinate descent over
\* unshuffled folds, so no random draw; at max_iter it warns and keeps its
\* last iterate.
FitLassoY ==
    /\ pc = "lasso_y"
    /\ coef_y' = CoefVector(lib.cy, Len(control_cols))
    /\ selected_y' = Selected(coef_y')
    /\ Continue("lasso_y")
    /\ ds_trace' = Append(ds_trace, [step |-> "lasso_y", X |-> control_cols])
    /\ warnings_shown' = IF lib.capped = "lasso_y"
                         THEN Warn(warnings_shown, ConvergenceWarning("lasso_y"))
                         ELSE warnings_shown
    /\ UNCHANGED << np_random, draws, np_random_calls >>
    /\ UNCHANGED rfsdVars
    /\ UNCHANGED << inputVars, files, control_cols, coef_d, selected_d,
                    selected_union, selected_names, X_final, results,
                    lasso_results, sampleVars, outcomeVars, effectVars,
                    reportVars, fitted, trace >>

\* Lines 173-182: LogisticRegressionCV on (X_scaled, D); it needs two
\* classes in D.  The saga solver picks its samples at random, and with no
\* random_state given it draws from numpy's global generator; at max_iter
\* it warns and keeps its last iterate.
FitLassoD ==
    /\ pc = "lasso_d"
    /\ IF Cardinality(Range(ColValues(df_clean, "agri_post"))) < 2
       THEN /\ Raise("ValueError", "lasso_d")
            /\ UNCHANGED << coef_d, selected_d, draws, np_random_calls,
                            warnings_shown >>
       ELSE /\ coef_d' = CoefVector(lib.cd, Len(control_cols))
            /\ selected_d' = Selected(coef_d')
            /\ draws' = Append(draws,
                         Draw("lasso_d", CheckRandomState("None", np_random)))
            /\ np_random_calls' =
                 Append(np_random_calls, [by |-> "lasso_d", call |-> "randint"])
            /\ warnings_shown' =
                 IF lib.capped = "lasso_d"
                 THEN Warn(warnings_shown, ConvergenceWarning("lasso_d"))
                 ELSE warnings_shown
            /\ Continue("lasso_d")
    /\ ds_trace' = Append(ds_trace, [step |-> "lasso_d", X |-> control_cols])
    /\ UNCHANGED np_random
    /\ UNCHANGED rfsdVars
    /\ UNCHANGED << inputVars, files, control_cols, coef_y, selected_y,
                    selected_union, selected_names, X_final, results,
                    lasso_results, sampleVars, outcomeVars, effectVars,
                    reportVars, fitted, trace >>

\* The two index arrays joined end to end.
Union1dConcat(a, b) == a \o b

\* np.union1d: the sorted distinct values of both arrays.
Union1d(a, b) == SortedSeq(Range(a) \cup Range(b))

\* [control_cols[i] for i in selected_union]
NamesOf(idx, names) == [j \in DOMAIN idx |-> names[idx[j]]]

\* Lines 184-188.
UnionStep ==
    /\ pc = "union"
    /\ selected_union' = Union1d(selected_y, selected_d)
    /\ selected_names' = NamesOf(selected_union', control_cols)
    /\ Continue("union")
    /\ ds_trace' = Append(ds_trace, [step |-> "union", X |-> << >>])
    /\ UNCHANGED << np_random, draws, np_random_calls, warnings_shown >>
    /\ UNCHANGED rfsdVars
    /\ UNCHANGED << inputVars, files, control_cols, coef_y, selected_y,
                    coef_d, selected_d, X_final, results, lasso_results,
                    sampleVars, outcomeVars, effectVars, reportVars, fitted,
                    trace >>

\* The final matrix built from the selected controls alone.
ColumnStackControlsOnly(names) == names

\* The final matrix with the treatment column after the controls.
ColumnStackControlsFirst(names) == names \o << "agri_post" >>

\* Lines 193-197: the treatment column, then the selected controls; the
\* treatment column alone when nothing was selected.
ColumnStack(names) ==
    IF Len(names) > 0 THEN << "agri_post" >> \o names ELSE << "agri_post" >>

\* Whether a column of the final matrix holds one nonzero value throughout
\* (what add_constant looks for): decided from the rows for the columns the
\* model carries, and true of any other column only on a single row.
IsConstantColumn(name, rows) ==
    IF name \in {"agri", "post", "agri_post", "ln_wage"}
    THEN /\ Len(rows) >= 1
         /\ Cardinality(Range(ColValues(rows, name))) = 1
         /\ 0 \notin Range(ColValues(rows, name))
    ELSE Len(rows) = 1

\* sm.add_constant (line 199), has_constant='skip': a column of ones is put
\* first unless the matrix already holds a constant column.
AddConstant(design, rows) ==
    IF \E i \in DOMAIN design : IsConstantColumn(design[i], rows)
    THEN design
    ELSE << "const" >> \o design

\* The covariance type when the fit without clusters is left at its default.
CovTypeNonRobust(cols) ==
    IF \E i \in DOMAIN cols : cols[i].name = "region"
    THEN "cluster" ELSE "nonrobust"

\* Lines 203-208.
CovType(cols) ==
    IF \E i \in DOMAIN cols : cols[i].name = "region" THEN "cluster" ELSE "HC1"

\* The fitted OLS: what was regressed on what, and how its covariance was
\* estimated.  A coefficient is named by its column and the design it was
\* estimated in.
Param(res, i) == [of |-> res.design[i], design |-> res.design]

StdErr(res, i) ==
    [of |-> res.design[i], design |-> res.design, cov_type |-> res.cov_type]

\* Lines 190-212: the final OLS; params[1] is the second coefficient.
FinalOLS ==
    /\ pc = "ols"
    /\ X_final' = AddConstant(ColumnStack(selected_names), df_clean)
    /\ results' = [design |-> X_final', cov_type |-> CovType(columns),
                   nobs |-> Len(df_clean)]
    /\ IF Len(X_final') < 2
       THEN Raise("IndexError", "ols")
       ELSE Continue("ols")
    /\ ds_trace' = Append(ds_trace, [step |-> "ols", X |-> X_final'])
    /\ UNCHANGED << np_random, draws, np_random_calls, warnings_shown >>
    /\ UNCHANGED rfsdVars
    /\ UNCHANGED << inputVars, files, control_cols, coef_y, selected_y,
                    coef_d, selected_d, selected_union, selected_names,
                    lasso_results, sampleVars, outcomeVars, effectVars,
                    reportVars, fitted, trace >>

\* The table of results with every selected name listed.
LassoResultsAllNames(res, union, names, nobs) ==
    [method |-> "Post-Double-Selection LASSO",
     coefficient |-> [of |-> res.design[2], design |-> res.design],
     std_error |-> [of |-> res.design[2], design |-> res.design,
                    cov_type |-> res.cov_type],
     p_value |-> [test |-> [of |-> res.design[2], design |-> res.design,
                            cov_type |-> res.cov_type]],
     ci_lower |-> [centre |-> [of |-> res.design[2], design |-> res.design],
                   z |-> -196],
     ci_upper |-> [centre |-> [of |-> res.design[2], design |-> res.design],
                   z |-> 196],
     n_controls_selected |-> Len(union),
     controls_selected |-> names,
     n_obs |-> nobs]

\* Lines 225-236: the one-row table of results.
LassoResults(res, union, names, nobs) ==
    [method |-> "Post-Double-Selection LASSO",
     coefficient |-> Param(res, 2),
     std_error |-> StdErr(res, 2),
     p_value |-> [test |-> StdErr(res, 2)],
     ci_lower |-> [centre |-> Param(res, 2), z |-> -196],
     ci_upper |-> [centre |-> Param(res, 2), z |-> 196],
     n_controls_selected |-> Len(union),
     controls_selected |-> Take(names, NameCap),
     n_obs |-> nobs]

\* Lines 225-237: the table is built and written to lasso_results.csv.
SaveLasso ==
    /\ pc = "save_lasso"
    /\ lasso_results' = LassoResults(results, selected_union, selected_names,
                                     Len(df_clean))
    /\ files' = files \cup {"lasso_results.csv"}
    /\ Continue("save_lasso")
    /\ UNCHANGED auditVars
    /\ UNCHANGED rfsdVars
    /\ UNCHANGED << inputVars, control_cols, coef_y, selected_y, coef_d,
                    selected_d, selected_union, selected_names, X_final,
                    results, sampleVars, outcomeVars, effectVars, reportVars,
                    fitted, trace >>

\* ------------------------------------------------------------- X-Learner
\* min(a, b)
Smaller(a, b) == IF a < b THEN a ELSE b

\* np.random.choice(n, m, replace=False): m distinct positions in an order
\* fixed by the seed and not known to the model.
Choices(n, m) ==
    { c \in [1..m -> 1..n] : \A i, j \in 1..m : i # j => c[i] # c[j] }

\* The first rows of the frame, whatever positions were drawn.
IlocHead(rows, idx) == [i \in DOMAIN idx |-> rows[i]]

\* df_clean.iloc[sample_idx].reset_index(drop=True)
Iloc(rows, idx) == [i \in DOMAIN idx |-> rows[idx[i]]]

\* Lines 257-267: the sub-sample df_cf and its Y_cf, T_cf.
Subsample ==
    /\ pc = "subsample"
    /\ \E c \in Choices(Len(df_clean), Smaller(SampleCap, Len(df_clean))) :
        /\ sample_idx' = c
        /\ df_cf' = Iloc(df_clean, c)
    /\ Continue("subsample")
    /\ np_random' = Seed42
    /\ draws' = Append(draws,
                    Draw("subsample", CheckRandomState("None", np_random')))
    /\ np_random_calls' =
         np_random_calls \o << [by |-> "subsample", call |-> "seed"],
                               [by |-> "subsample", call |-> "choice"] >>
    /\ UNCHANGED << ds_trace, warnings_shown >>
    /\ UNCHANGED rfsdVars
    /\ UNCHANGED << inputVars, files, dsVars, hetero_vars, X_cf, n_treated,
                    n_control, outcomeVars, effectVars, reportVars, fitted,
                    trace >>

\* c.startswith('educ_'), over the column names of the model.
StartsWithEduc(name) ==
    name \in {"educ_cat", "educ_0", "educ_1", "educ_2", "educ_3"}

\* pd.api.types.is_numeric_dtype(df_cf[v]) and df_cf[v].notna().all()
IsUsable(c) == c.numeric /\ ~c.hasna

\* list(dict.fromkeys(names)): the first occurrence of each name, in order.
Dedupe(names) ==
    LET first == {i \in DOMAIN names :
                    \A j \in 1..(i - 1) : names[j] # names[i]}
    IN  NamesOf(SortedSeq(first), names)

\* Lines 270-285: the four named covariates that are present and usable,
\* then every usable column whose name starts with educ_, without repeats,
\* cut to ten.
HeteroVars(cols) ==
    LET named == << "age", "female", "post", "age_sq" >>
        has(v) == \E i \in DOMAIN cols : cols[i].name = v /\ IsUsable(cols[i])
        base == NamesOf(SortedSeq({k \in DOMAIN named : has(named[k])}), named)
        educ == NamesOf(SortedSeq({i \in DOMAIN cols :
                            StartsWithEduc(cols[i].name) /\ IsUsable(cols[i])}),
                        [i \in DOMAIN cols |-> cols[i].name])
    IN  Take(Dedupe(base \o educ), HeteroCap)

\* A row of X_cf = df_cf[hetero_vars].values: the model carries the value
\* of post; the other covariates are the same in every row.
CovRow(r, hv) == IF "post" \in Range(hv) THEN r.post ELSE 0

\* T_cf.sum(): the sum of the values, which counts the ones only when every
\* value is 0 or 1.
RECURSIVE SumOf(_)
SumOf(vals) == IF vals = << >> THEN 0 ELSE Head(vals) + SumOf(Tail(vals))

\* Lines 269-295: hetero_vars, X_cf and the two head counts.
Hetero ==
    /\ pc = "hetero"
    /\ hetero_vars' = HeteroVars(columns)
    /\ X_cf' = [i \in DOMAIN df_cf |-> CovRow(df_cf[i], hetero_vars')]
    /\ n_treated' = SumOf(ColValues(df_cf, "agri"))
    /\ n_control' = Len(df_cf) - n_treated'
    /\ Continue("hetero")
    /\ UNCHANGED auditVars
    /\ UNCHANGED rfsdVars
    /\ UNCHANGED << inputVars, files, dsVars, sample_idx, df_cf, outcomeVars,
                    effectVars, reportVars, fitted, trace >>

\* A mask that keeps every row.
MaskAll(rows, v) == SortedSeq(DOMAIN rows)

\* T_cf == v: the positions of the arm, ascending.
Mask(rows, v) == SortedSeq({i \in DOMAIN rows : rows[i].agri = v})

\* X[mask], y[mask]
At(vals, mask) == [j \in DOMAIN mask |-> vals[mask[j]]]

\* An ensemble refuses a training matrix with no rows or no columns.
CanFit(x, hv) == Len(x) > 0 /\ Len(hv) > 0

\* Lines 300-303: the control-arm outcome model.
FitMu0 ==
    /\ pc = "fit_mu0"
    /\ trace' = Append(trace, "fit_mu0")
    /\ IF CanFit(Mask(df_cf, 0), hetero_vars)
       THEN /\ rf_0' = Fitted(At(X_cf, Mask(df_cf, 0)),
                              At(ColValues(df_cf, "ln_wage"), Mask(df_cf, 0)),
                              10)
            /\ fitted' = fitted \cup {"rf_0"}
            /\ draws' = Append(draws,
                         Draw("fit_mu0", CheckRandomState(Seed42, np_random)))
            /\ Continue("fit_mu0")
       ELSE /\ Raise("ValueError", "fit_mu0")
            /\ UNCHANGED << rf_0, fitted, draws >>
    /\ UNCHANGED << ds_trace, np_random, np_random_calls, warnings_shown >>
    /\ UNCHANGED rfsdVars
    /\ UNCHANGED << inputVars, files, dsVars, sampleVars, rf_1, mu_0, mu_1,
                    D_0, D_1, effectVars, reportVars >>

\* Lines 305-308: the treated-arm outcome model.
FitMu1 ==
    /\ pc = "fit_mu1"
    /\ trace' = Append(trace, "fit_mu1")
    /\ IF CanFit(Mask(df_cf, 1), hetero_vars)
       THEN /\ rf_1' = Fitted(At(X_cf, Mask(df_cf, 1)),
                              At(ColValues(df_cf, "ln_wage"), Mask(df_cf, 1)),
                              10)
            /\ fitted' = fitted \cup {"rf_1"}
            /\ draws' = Append(draws,
                         Draw("fit_mu1", CheckRandomState(Seed42, np_random)))
            /\ Continue("fit_mu1")
       ELSE /\ Raise("ValueError", "fit_mu1")
            /\ UNCHANGED << rf_1, fitted, draws >>
    /\ UNCHANGED << ds_trace, np_random, np_random_calls, warnings_shown >>
    /\ UNCHANGED rfsdVars
    /\ UNCHANGED << inputVars, files, dsVars, sampleVars, rf_0, mu_0, mu_1,
                    D_0, D_1, effectVars, reportVars >>

\* Lines 310-312: both outcome models predict every row of X_cf.
PredictMu ==
    /\ pc = "predict_mu"
    /\ trace' = Append(trace, "predict_mu")
    /\ mu_0' = PredictAll(lib.reg, rf_0, X_cf)
    /\ mu_1' = PredictAll(lib.reg, rf_1, X_cf)
    /\ Continue("predict_mu")
    /\ UNCHANGED auditVars
    /\ UNCHANGED rfsdVars
    /\ UNCHANGED << inputVars, files, dsVars, sampleVars, rf_0, rf_1, D_0,
                    D_1, effectVars, reportVars, fitted >>

\* The control pseudo-effect with the sign of the treated one.
PseudoControlFlipped(m1, y, mask) ==
    [j \in DOMAIN mask |-> y[mask[j]] - m1[mask[j]]]

\* D_0 = mu_1[mask_0] - Y_cf[mask_0] (line 318)
PseudoControl(m1, y, mask) == [j \in DOMAIN mask |-> m1[mask[j]] - y[mask[j]]]

\* D_1 = Y_cf[mask_1] - mu_0[mask_1] (line 321)
PseudoTreated(m0, y, mask) == [j \in DOMAIN mask |-> y[mask[j]] - m0[mask[j]]]

\* Lines 314-321.
Pseudo ==
    /\ pc = "pseudo"
    /\ trace' = Append(trace, "pseudo")
    /\ D_0' = PseudoControl(mu_1, ColValues(df_cf, "ln_wage"), Mask(df_cf, 0))
    /\ D_1' = PseudoTreated(mu_0, ColValues(df_cf, "ln_wage"), Mask(df_cf, 1))
    /\ Continue("pseudo")
    /\ UNCHANGED auditVars
    /\ UNCHANGED rfsdVars
    /\ UNCHANGED << inputVars, files, dsVars, sampleVars, rf_0, rf_1, mu_0,
                    mu_1, effectVars, reportVars, fitted >>

\* Lines 326-327: the control-side effect model.
FitTau0 ==
    /\ pc = "fit_tau0"
    /\ trace' = Append(trace, "fit_tau0")
    /\ tau_0_model' = Fitted(At(X_cf, Mask(df_cf, 0)), D_0, 8)
    /\ fitted' = fitted \cup {"tau_0_model"}
    /\ draws' = Append(draws,
                 Draw("fit_tau0", CheckRandomState(Seed42, np_random)))
    /\ Continue("fit_tau0")
    /\ UNCHANGED << ds_trace, np_random, np_random_calls, warnings_shown >>
    /\ UNCHANGED rfsdVars
    /\ UNCHANGED << inputVars, files, dsVars, sampleVars, outcomeVars,
                    tau_1_model, ps_model, e_x, tau_0_pred, tau_1_pred,
                    tau_hat, reportVars >>

\* Lines 329-330: the treated-side effect model.
FitTau1 ==
    /\ pc = "fit_tau1"
    /\ trace' = Append(trace, "fit_tau1")
    /\ tau_1_model' = Fitted(At(X_cf, Mask(df_cf, 1)), D_1, 8)
    /\ fitted' = fitted \cup {"tau_1_model"}
    /\ draws' = Append(draws,
                 Draw("fit_tau1", CheckRandomState(Seed42, np_random)))
    /\ Continue("fit_tau1")
    /\ UNCHANGED << ds_trace, np_random, np_random_calls, warnings_shown >>
    /\ UNCHANGED rfsdVars
    /\ UNCHANGED << inputVars, files, dsVars, sampleVars, outcomeVars,
                    tau_0_model, ps_model, e_x, tau_0_pred, tau_1_pred,
                    tau_hat, reportVars >>

\* Lines 332-337: the propensity model on every row, and its P(T = 1 | X).
FitPropensity ==
    /\ pc = "fit_ps"
    /\ trace' = Append(trace, "fit_ps")
    /\ ps_model' = Fitted(X_cf, ColValues(df_cf, "agri"), 8)
    /\ e_x' = [i \in DOMAIN X_cf |-> PredictProba(lib.clf, ps_model', X_cf[i])]
    /\ fitted' = fitted \cup {"ps_model"}
    /\ draws' = Append(draws,
                 Draw("fit_ps", CheckRandomState(Seed42, np_random)))
    /\ Continue("fit_ps")
    /\ UNCHANGED << ds_trace, np_random, np_random_calls, warnings_shown >>
    /\ UNCHANGED rfsdVars
    /\ UNCHANGED << inputVars, files, dsVars, sampleVars, outcomeVars,
                    tau_0_model, tau_1_model, tau_0_pred, tau_1_pred, tau_hat,
                    reportVars >>

\* The blend with the two weights exchanged.
BlendSwapped(e, t0, t1) == (PScale - e) * t0 + e * t1

\* tau_hat = e_x * tau_0_pred + (1 - e_x) * tau_1_pred (line 344), one row,
\* in units of 1/PScale.
Blend(e, t0, t1) == e * t0 + (PScale - e) * t1

\* Lines 339-344: both effect models predict every row, and the blend.
Combine ==
    /\ pc = "combine"
    /\ trace' = Append(trace, "combine")
    /\ tau_0_pred' = PredictAll(lib.reg, tau_0_model, X_cf)
    /\ tau_1_pred' = PredictAll(lib.reg, tau_1_model, X_cf)
    /\ tau_hat' = [i \in DOMAIN X_cf |->
                     Blend(e_x[i], tau_0_pred'[i], tau_1_pred'[i])]
    /\ Continue("combine")
    /\ UNCHANGED auditVars
    /\ UNCHANGED rfsdVars
    /\ UNCHANGED << inputVars, files, dsVars, sampleVars, outcomeVars,
                    tau_0_model, tau_1_model, ps_model, e_x, reportVars,
                    fitted >>

\* feature_importances_ of a fitted forest over the covariates: zero
\* everywhere when the targets do not vary (no split is made), else
\* normalised to sum to 1; the model puts it on post, the covariate whose
\* values it carries.
Importances(model, hv) ==
    [i \in DOMAIN hv |->
        IF Cardinality(Range(model.y)) > 1 /\ hv[i] = "post" THEN 1 ELSE 0]

\* sort_values('importance', ascending=False), ties in the given order.
SortDescending(rows) ==
    LET rank(i) == Cardinality({j \in DOMAIN rows :
                        \/ rows[j].importance > rows[i].importance
                        \/ /\ rows[j].importance = rows[i].importance
                           /\ j < i})
    IN  [r \in DOMAIN rows |-> rows[CHOOSE i \in DOMAIN rows : rank(i) = r - 1]]

\* The two importances added and not halved (in units of 1/2).
ImportanceSum(i0, i1) == [k \in DOMAIN i0 |-> 2 * (i0[k] + i1[k])]

\* importance_avg = (importance_0 + importance_1) / 2 (line 366), in units
\* of 1/2.
ImportanceAvg(i0, i1) == [k \in DOMAIN i0 |-> i0[k] + i1[k]]

\* Lines 358-374: the averaged importances beside the covariate names,
\* sorted.
Importance ==
    /\ pc = "importance"
    /\ importance_df' =
         SortDescending(
            [i \in DOMAIN hetero_vars |->
               [variable |-> hetero_vars[i],
                importance |->
                    ImportanceAvg(Importances(tau_0_model, hetero_vars),
                                  Importances(tau_1_model, hetero_vars))[i]]])
    /\ Continue("importance")
    /\ UNCHANGED auditVars
    /\ UNCHANGED rfsdVars
    /\ UNCHANGED << inputVars, files, dsVars, sampleVars, outcomeVars,
                    effectVars, cf_results, fitted, trace >>

\* Lines 376-409: df_cf['tau_hat'] = tau_hat, then the subgroup means.
Subgroups ==
    /\ pc = "subgroups"
    /\ df_cf' = [i \in DOMAIN df_cf |->
                   [rid |-> df_cf[i].rid, agri |-> df_cf[i].agri,
                    post |-> df_cf[i].post, agri_post |-> df_cf[i].agri_post,
                    ln_wage |-> df_cf[i].ln_wage, tau_hat |-> tau_hat[i]]]
    /\ Continue("subgroups")
    /\ UNCHANGED auditVars
    /\ UNCHANGED rfsdVars
    /\ UNCHANGED << inputVars, files, dsVars, sample_idx, hetero_vars, X_cf,
                    n_treated, n_control, outcomeVars, effectVars, reportVars,
                    fitted, trace >>

\* Lines 411-425: the summary row and the three tables written.
SaveCF ==
    /\ pc = "save_cf"
    /\ cf_results' = [method |-> "X-Learner Causal Forest",
                      min_tau |-> MinOf(Range(tau_hat)),
                      max_tau |-> MaxOf(Range(tau_hat)),
                      n_obs |-> Len(tau_hat)]
    /\ files' = files \cup {"causal_forest_results.csv",
                             "causal_forest_importance.csv",
                             "individual_treatment_effects.csv"}
    /\ Continue("save_cf")
    /\ UNCHANGED auditVars
    /\ UNCHANGED rfsdVars
    /\ UNCHANGED << inputVars, dsVars, sampleVars, outcomeVars, effectVars,
                    importance_df, fitted, trace >>

\* Lines 427-567: the figure in two formats, then the printed summary, which
\* reads the first two rows of importance_df.
Figures ==
    /\ pc = "figures"
    /\ files' = files \cup {"causal_forest_figure.png",
                             "causal_forest_figure.pdf"}
    /\ IF Len(importance_df) < 2
       THEN Raise("IndexError", "figures")
       ELSE Continue("figures")
    /\ UNCHANGED auditVars
    /\ UNCHANGED rfsdVars
    /\ UNCHANGED << inputVars, dsVars, sampleVars, outcomeVars, effectVars,
                    reportVars, fitted, trace >>

Next ==
    \/ SelectControls
    \/ FitLassoY
    \/ FitLassoD
    \/ UnionStep
    \/ FinalOLS
    \/ SaveLasso
    \/ Subsample
    \/ Hetero
    \/ FitMu0
    \/ FitMu1
    \/ PredictMu
    \/ Pseudo
    \/ FitTau0
    \/ FitTau1
    \/ FitPropensity
    \/ Combine
    \/ Importance
    \/ Subgroups
    \/ SaveCF
    \/ Figures

Spec == Init /\ [][Next]_vars

\* ----------------------------------------------------- the RFSD scripts
\* A string is the sequence of its characters.  Python's None and a null of
\* a polars column are None for a category or a region and Null for a code.
None == "None"

Null == << "None" >>

\* Firms per file in the samples with several firms.
MaxFirms == 3

\* s.startswith(p)
StartsWith(s, p) == Len(s) >= Len(p) /\ SubSeq(s, 1, Len(p)) = p

\* compute_treatment_intensity.py, lines 33-71.
OKVED_TO_PRODUCT ==
    (<< "0", "1", ".", "4", "1" >> :> "dairy") @@
    (<< "0", "1", ".", "4", "5" >> :> "dairy") @@
    (<< "1", "0", ".", "5", "1" >> :> "dairy") @@
    (<< "1", "0", ".", "5", "2" >> :> "dairy") @@
    (<< "0", "1", ".", "4", "2" >> :> "meat_beef") @@
    (<< "1", "0", ".", "1", "1" >> :> "meat_beef") @@
    (<< "0", "1", ".", "4", "6" >> :> "meat_pork") @@
    (<< "0", "1", ".", "4", "7" >> :> "meat_poultry") @@
    (<< "0", "1", ".", "1" >> :> "fruits_veg") @@
    (<< "0", "1", ".", "1", "1" >> :> "fruits_veg") @@
    (<< "0", "1", ".", "1", "3" >> :> "fruits_veg") @@
    (<< "0", "1", ".", "2" >> :> "fruits_veg") @@
    (<< "0", "1", ".", "2", "1" >> :> "fruits_veg") @@
    (<< "0", "1", ".", "2", "4" >> :> "fruits_veg") @@
    (<< "0", "1", ".", "2", "5" >> :> "fruits_veg") @@
    (<< "1", "0", ".", "3" >> :> "fruits_veg") @@
    (<< "1", "0", ".", "3", "1" >> :> "fruits_veg") @@
    (<< "1", "0", ".", "3", "2" >> :> "fruits_veg") @@
    (<< "1", "0", ".", "3", "9" >> :> "fruits_veg") @@
    (<< "0", "3" >> :> "fish") @@
    (<< "0", "3", ".", "1" >> :> "fish") @@
    (<< "0", "3", ".", "1", "1" >> :> "fish") @@
    (<< "0", "3", ".", "1", "2" >> :> "fish") @@
    (<< "0", "3", ".", "2" >> :> "fish") @@
    (<< "1", "0", ".", "2" >> :> "fish") @@
    (<< "1", "0", ".", "2", "0" >> :> "fish")

\* analyze_subsector_mechanism.py, lines 83-121.
OKVED_TO_PRODUCT_mechanism ==
    (<< "0", "1", ".", "4", "1" >> :> "dairy") @@
    (<< "0", "1", ".", "4", "5" >> :> "dairy") @@
    (<< "1", "0", ".", "5", "1" >> :> "dairy") @@
    (<< "1", "0", ".", "5", "2" >> :> "dairy") @@
    (<< "0", "1", ".", "4", "2" >> :> "meat_beef") @@
    (<< "1", "0", ".", "1", "1" >> :> "meat_beef") @@
    (<< "0", "1", ".", "4", "6" >> :> "meat_pork") @@
    (<< "0", "1", ".", "4", "7" >> :> "meat_poultry") @@
    (<< "0", "1", ".", "1" >> :> "fruits_veg") @@
    (<< "0", "1", ".", "1", "1" >> :> "fruits_veg") @@
    (<< "0", "1", ".", "1", "3" >> :> "fruits_veg") @@
    (<< "0", "1", ".", "2" >> :> "fruits_veg") @@
    (<< "0", "1", ".", "2", "1" >> :> "fruits_veg") @@
    (<< "0", "1", ".", "2", "4" >> :> "fruits_veg") @@
    (<< "0", "1", ".", "2", "5" >> :> "fruits_veg") @@
    (<< "1", "0", ".", "3" >> :> "fruits_veg") @@
    (<< "1", "0", ".", "3", "1" >> :> "fruits_veg") @@
    (<< "1", "0", ".", "3", "2" >> :> "fruits_veg") @@
    (<< "1", "0", ".", "3", "9" >> :> "fruits_veg") @@
    (<< "0", "3" >> :> "fish") @@
    (<< "0", "3", ".", "1" >> :> "fish") @@
    (<< "0", "3", ".", "1", "1" >> :> "fish") @@
    (<< "0", "3", ".", "1", "2" >> :> "fish") @@
    (<< "0", "3", ".", "2" >> :> "fish") @@
    (<< "1", "0", ".", "2" >> :> "fish") @@
    (<< "1", "0", ".", "2", "0" >> :> "fish")

\* analyze_subsector_revenue.py, lines 21-32.
OKVED_TO_PRODUCT_revenue ==
    (<< "0", "1", ".", "4", "1" >> :> "dairy") @@
    (<< "0", "1", ".", "4", "5" >> :> "dairy") @@
    (<< "1", "0", ".", "5", "1" >> :> "dairy") @@
    (<< "1", "0", ".", "5", "2" >> :> "dairy") @@
    (<< "0", "1", ".", "4", "2" >> :> "meat_beef") @@
    (<< "1", "0", ".", "1", "1" >> :> "meat_beef") @@
    (<< "0", "1", ".", "4", "6" >> :> "meat_pork") @@
    (<< "0", "1", ".", "4", "7" >> :> "meat_poultry") @@
    (<< "0", "1", ".", "1" >> :> "fruits_veg") @@
    (<< "0", "1", ".", "1", "1" >> :> "fruits_veg") @@
    (<< "0", "1", ".", "1", "3" >> :> "fruits_veg") @@
    (<< "0", "1", ".", "2" >> :> "fruits_veg") @@
    (<< "0", "1", ".", "2", "1" >> :> "fruits_veg") @@
    (<< "0", "1", ".", "2", "4" >> :> "fruits_veg") @@
    (<< "0", "1", ".", "2", "5" >> :> "fruits_veg") @@
    (<< "1", "0", ".", "3" >> :> "fruits_veg") @@
    (<< "1", "0", ".", "3", "1" >> :> "fruits_veg") @@
    (<< "1", "0", ".", "3", "2" >> :> "fruits_veg") @@
    (<< "1", "0", ".", "3", "9" >> :> "fruits_veg") @@
    (<< "0", "3" >> :> "fish") @@
    (<< "0", "3", ".", "1" >> :> "fish") @@
    (<< "0", "3", ".", "1", "1" >> :> "fish") @@
    (<< "0", "3", ".", "1", "2" >> :> "fish") @@
    (<< "0", "3", ".", "2" >> :> "fish") @@
    (<< "1", "0", ".", "2" >> :> "fish") @@
    (<< "1", "0", ".", "2", "0" >> :> "fish")

\* FOOD_AGRI_PREFIXES (line 74).
FOOD_AGRI_PREFIXES ==
    << << "0", "1" >>, << "0", "3" >>, << "1", "0" >>, << "1", "1" >>,
       << "4", "6", ".", "2" >>, << "4", "6", ".", "3" >>,
       << "4", "7", ".", "2" >> >>

\* IMPORT_SHARES (lines 22-29), in percent.
IMPORT_SHARES ==
    [c \in {"dairy", "meat_beef", "meat_pork", "meat_poultry", "fruits_veg",
            "fish"} |->
        CASE c = "dairy" -> 35
          [] c = "meat_beef" -> 25
          [] c = "meat_pork" -> 25
          [] c = "meat_poultry" -> 15
          [] c = "fruits_veg" -> 65
          [] c = "fish" -> 30]

\* The six product categories in the order of the share columns.
Products ==
    << "dairy", "meat_beef", "meat_pork", "meat_poultry", "fruits_veg",
       "fish" >>

\* The first prefix length of lens whose prefix is a key of dict, as the
\* loops try them in order; 0 when none is.
FirstHit(okved, dict, lens, wholeWhenShort) ==
    LET prefix(n) == IF Len(okved) >= n THEN SubSeq(okved, 1, n) ELSE okved
        tried(n) == IF Len(okved) >= n THEN TRUE ELSE wholeWhenShort
        hits == {i \in DOMAIN lens :
                    tried(lens[i]) /\ prefix(lens[i]) \in DOMAIN dict}
    IN  IF hits = {} THEN 0 ELSE lens[MinOf(hits)]

\* compute_treatment_intensity.py, lines 89-104: the exact code, then the
\* prefixes of length 4, 3, 2 (the code itself when it is shorter).
classify_firm_product(okved) ==
    IF okved = Null THEN None
    ELSE IF okved \in DOMAIN OKVED_TO_PRODUCT THEN OKVED_TO_PRODUCT[okved]
    ELSE LET n == FirstHit(okved, OKVED_TO_PRODUCT, << 4, 3, 2 >>, TRUE)
         IN  IF n = 0 THEN None
             ELSE OKVED_TO_PRODUCT[IF Len(okved) >= n
                                   THEN SubSeq(okved, 1, n) ELSE okved]

\* analyze_subsector_mechanism.py, lines 124-140: the exact code, then the
\* prefixes of length 5, 4, 3, 2 that the code is long enough to have.
classify_firm_product_mechanism(okved) ==
    IF okved = Null THEN None
    ELSE IF okved \in DOMAIN OKVED_TO_PRODUCT_mechanism
         THEN OKVED_TO_PRODUCT_mechanism[okved]
    ELSE LET n == FirstHit(okved, OKVED_TO_PRODUCT_mechanism,
                           << 5, 4, 3, 2 >>, FALSE)
         IN  IF n = 0 THEN None
             ELSE OKVED_TO_PRODUCT_mechanism[SubSeq(okved, 1, n)]

\* analyze_subsector_revenue.py, lines 44-54: the same loop.
classify_firm_product_revenue(okved) ==
    IF okved = Null THEN None
    ELSE IF okved \in DOMAIN OKVED_TO_PRODUCT_revenue
         THEN OKVED_TO_PRODUCT_revenue[okved]
    ELSE LET n == FirstHit(okved, OKVED_TO_PRODUCT_revenue,
                           << 5, 4, 3, 2 >>, FALSE)
         IN  IF n = 0 THEN None
             ELSE OKVED_TO_PRODUCT_revenue[SubSeq(okved, 1, n)]

\* compute_treatment_intensity.py, lines 107-111.
is_food_agri_firm(okved) ==
    IF okved = Null THEN FALSE
    ELSE \E i \in DOMAIN FOOD_AGRI_PREFIXES :
            StartsWith(okved, FOOD_AGRI_PREFIXES[i])

\* A float that is a quotient of counts: num / den, where den = 0 stands for
\* NaN (num = 0) or infinity (num > 0).
Float(num, den) == [num |-> num, den |-> den]

\* a / b on two integer columns: polars divides as floats, so 0 / 0 is NaN
\* and n / 0 is infinite.
Divide(a, b) == Float(a, b)

\* fill_nan left out.
FillNanNoop(x, v) == x

\* .fill_nan(v)
FillNan(x, v) == IF x.den = 0 /\ x.num = 0 THEN Float(v, 1) ELSE x

\* x * y and x + y on floats; a NaN or an infinity stays one.
Times(x, y) == Float(x.num * y.num, x.den * y.den)

Plus(x, y) ==
    IF x.den = y.den THEN Float(x.num + y.num, x.den)
    ELSE Float(x.num * y.den + y.num * x.den, x.den * y.den)

\* The characters the codes of the model are written with, by position in
\* the pattern "dd.dd.d".
FullCodes ==
    { << a, b, ".", c, d, ".", "1" >> :
        a \in {"0", "1", "4"}, b \in {"0", "1", "3", "6", "7"},
        c \in {"1", "2", "3", "4", "5"},
        d \in {"0", "1", "2", "3", "4", "5", "6", "7", "9"} }

\* Every code of that pattern and every code cut short, the empty string
\* included.
Codes == { SubSeq(f, 1, n) : f \in FullCodes, n \in 0..7 }

\* The codes of the samples with several firms: a dairy class, a sub-class
\* of it, a fish class, a beverage class, a retail class, and no code.
SmallCodes ==
    << << "0", "1", ".", "4", "1" >>,
       << "0", "1", ".", "4", "1", ".", "1" >>,
       << "1", "0", ".", "2", "0" >>,
       << "1", "1", ".", "0", "5" >>,
       << "4", "7", ".", "1", "1" >>,
       Null >>

Regions == << "r1", "r2", None >>

\* A firm of each small code in each region.
FirmKinds ==
    [k \in 1..(Len(SmallCodes) * Len(Regions)) |->
        [region |-> Regions[((k - 1) % Len(Regions)) + 1],
         okved |-> SmallCodes[((k - 1) \div Len(Regions)) + 1]]]

\* The files explored: one firm with any code, or up to MaxFirms firms of
\* the small codes in two regions or none (order does not matter to any
\* step, so each multiset is listed once).
FirmFiles ==
    { << [region |-> "r1", okved |-> c] >> : c \in Codes \cup {Null} }
    \cup
    UNION { { [i \in 1..n |-> FirmKinds[t[i]]] : t \in
                { t \in [1..n -> DOMAIN FirmKinds] :
                    \A i \in 1..(n - 1) : t[i] <= t[i + 1] } }
            : n \in 0..MaxFirms }

\* The steps: compute_regional_measures of compute_treatment_intensity.py,
\* then the classification step of each of the two sub-sector scripts, run
\* on the same file.
RfsdSteps ==
    << "classify", "aggregate", "shares", "intensity", "mechanism", "revenue",
       "done" >>

RfsdAfter(s) == RfsdSteps[(CHOOSE i \in DOMAIN RfsdSteps : RfsdSteps[i] = s) + 1]

\* Lines 127-139: the two columns added by map_elements.  A null code gives
\* a null product_category; its is_food_agri is not counted by the sum of
\* line 149, as a False is not.
ClassifyFirms ==
    /\ rfsd_pc = "classify"
    /\ product_category' =
         [i \in DOMAIN df_firms |-> classify_firm_product(df_firms[i].okved)]
    /\ is_food_agri' =
         [i \in DOMAIN df_firms |-> is_food_agri_firm(df_firms[i].okved)]
    /\ rfsd_pc' = RfsdAfter("classify")
    /\ UNCHANGED << df_firms, regional_stats, regional_shares,
                    treatment_intensity, product_mechanism, product_revenue >>
    /\ UNCHANGED mlVars

\* The number of firms of region r that satisfy a column of booleans.
CountIn(r, flags) ==
    Cardinality({i \in DOMAIN df_firms : df_firms[i].region = r /\ flags[i]})

\* Lines 141-163: the counts by region, the null region filtered out.
Aggregate ==
    /\ rfsd_pc = "aggregate"
    /\ regional_stats' =
         [r \in {df_firms[i].region : i \in DOMAIN df_firms} \ {None} |->
            [total_firms |-> CountIn(r, [i \in DOMAIN df_firms |-> TRUE]),
             food_agri_firms |-> CountIn(r, is_food_agri),
             n |-> [c \in Range(Products) |->
                      CountIn(r, [i \in DOMAIN df_firms |->
                                    product_category[i] = c])]]]
    /\ rfsd_pc' = RfsdAfter("aggregate")
    /\ UNCHANGED << df_firms, product_category, is_food_agri, regional_shares,
                    treatment_intensity, product_mechanism, product_revenue >>
    /\ UNCHANGED mlVars

\* Lines 165-180: share_food_agri and the six product shares.
ComputeShares ==
    /\ rfsd_pc = "shares"
    /\ regional_shares' =
         [r \in DOMAIN regional_stats |->
            [share_food_agri |->
                Divide(regional_stats[r].food_agri_firms,
                       regional_stats[r].total_firms),
             share |-> [c \in Range(Products) |->
                          FillNan(Divide(regional_stats[r].n[c],
                                         regional_stats[r].food_agri_firms),
                                  0)]]]
    /\ rfsd_pc' = RfsdAfter("shares")
    /\ UNCHANGED << df_firms, product_category, is_food_agri, regional_stats,
                    treatment_intensity, product_mechanism, product_revenue >>
    /\ UNCHANGED mlVars

\* share_<c> * IMPORT_SHARES[c], summed over the first k products.
RECURSIVE WeightedSum(_, _)
WeightedSum(share, k) ==
    IF k = 1
    THEN Times(share[Products[1]], Float(IMPORT_SHARES[Products[1]], 100))
    ELSE Plus(WeightedSum(share, k - 1),
              Times(share[Products[k]], Float(IMPORT_SHARES[Products[k]], 100)))

\* Lines 182-199: treatment_intensity_product and
\* treatment_intensity_combined.
ComputeIntensity ==
    /\ rfsd_pc = "intensity"
    /\ treatment_intensity' =
         [r \in DOMAIN regional_shares |->
            [product |-> WeightedSum(regional_shares[r].share, Len(Products)),
             combined |->
                Times(regional_shares[r].share_food_agri,
                      WeightedSum(regional_shares[r].share, Len(Products)))]]
    /\ rfsd_pc' = RfsdAfter("intensity")
    /\ UNCHANGED << df_firms, product_category, is_food_agri, regional_stats,
                    regional_shares, product_mechanism, product_revenue >>
    /\ UNCHANGED mlVars

\* analyze_subsector_mechanism.py, lines 174-180 (and 349-354).
ClassifyMechanism ==
    /\ rfsd_pc = "mechanism"
    /\ product_mechanism' =
         [i \in DOMAIN df_firms |->
            classify_firm_product_mechanism(df_firms[i].okved)]
    /\ rfsd_pc' = RfsdAfter("mechanism")
    /\ UNCHANGED << df_firms, product_category, is_food_agri, regional_stats,
                    regional_shares, treatment_intensity, product_revenue >>
    /\ UNCHANGED mlVars

\* analyze_subsector_revenue.py, lines 87-89.
ClassifyRevenue ==
    /\ rfsd_pc = "revenue"
    /\ product_revenue' =
         [i \in DOMAIN df_firms |->
            classify_firm_product_revenue(df_firms[i].okved)]
    /\ rfsd_pc' = RfsdAfter("revenue")
    /\ UNCHANGED << df_firms, product_category, is_food_agri, regional_stats,
                    regional_shares, treatment_intensity, product_mechanism >>
    /\ UNCHANGED mlVars

\* The RFSD scripts started on a file; analysis_ml_methods.py not run.
InitRfsd ==
    /\ df_clean = << >> /\ columns = << >>
    /\ lib = [cy |-> "zero", cd |-> "zero", reg |-> "lo", clf |-> "half",
              capped |-> "none"]
    /\ pc = "idle"
    /\ Unbound
    /\ df_firms \in FirmFiles
    /\ rfsd_pc = "classify"
    /\ product_category = << >> /\ is_food_agri = << >>
    /\ regional_stats = << >> /\ regional_shares = << >>
    /\ treatment_intensity = << >>
    /\ product_mechanism = << >> /\ product_revenue = << >>

NextRfsd ==
    \/ ClassifyFirms
    \/ Aggregate
    \/ ComputeShares
    \/ ComputeIntensity
    \/ ClassifyMechanism
    \/ ClassifyRevenue

SpecRfsd == InitRfsd /\ [][NextRfsd]_vars


\* ------------------------------------------------------------ properties
StepIndex(s) == CHOOSE i \in DOMAIN Steps : Steps[i] = s

\* The block the run is in: the next to run, or the one that raised.
Current == IF pc = "failed" THEN error.at ELSE pc

\* Block s has run to its end.
Done(s) == StepIndex(s) < StepIndex(Current)

FailedAt(s) == pc = "failed" /\ error.at = s

EmptyArm == Len(Mask(df_cf, 0)) = 0 \/ Len(Mask(df_cf, 1)) = 0

\* C1: once the sub-sample is drawn and one of its treatment arms has no
\* row, no ensemble has been fitted, and the run either has not reached the
\* first fit yet or has ended with an EmptyGroupError.
C1_EmptyArmAbortsBeforeAnyFit ==
    (Done("hetero") /\ EmptyArm) =>
        /\ fitted = {}
        /\ pc = "fit_mu0" \/ (pc = "failed" /\ error.kind = "EmptyGroupError")

\* A column the candidate matrix could take by name and type that holds a
\* missing value or has zero variance.
Defective(c) == c.name \notin exclude_cols /\ c.numeric /\ (c.hasna \/ c.std0)

\* C2: when the data holds a column with missing values or zero variance,
\* the run does not get past its first block: it ends there with an
\* InputError, before any fit, and the column is not skipped silently.
C2_DefectiveColumnIsFatal ==
    ((\E i \in DOMAIN columns : Defective(columns[i])) /\ pc # "controls") =>
        (FailedAt("controls") /\ error.kind = "InputError")

\* C3: a candidate covariate that copies the treatment column row by row is
\* never among the candidate controls handed to the selection steps nor a
\* column of the final regression; the run ends with an InputError instead.
C3_TreatmentCopyExcluded ==
    \A i \in DOMAIN columns :
        (columns[i].copyD /\ columns[i].name # "agri_post") =>
            /\ columns[i].name \notin Range(control_cols)
            /\ columns[i].name \notin Range(X_final)
            /\ pc # "controls" =>
                 (FailedAt("controls") /\ error.kind = "InputError")

\* The effect the fitted models give to a row with covariates q.
EffectAt(q) ==
    Blend(PredictProba(lib.clf, ps_model, q),
          PredictReg(lib.reg, tau_0_model, q),
          PredictReg(lib.reg, tau_1_model, q))

\* C4 as stated: the per-row effects have one entry per row of the prepared
\* sample, entry i being the effect of row i.
C4_EffectsAlignedToInput ==
    Done("subgroups") =>
        /\ Len(tau_hat) = Len(df_clean)
        /\ \A i \in DOMAIN tau_hat : df_cf[i].rid = i

\* C4 amended: the per-row effects have one entry per row of the sub-sample
\* df_cf, which holds min(SampleCap, n) distinct rows of the prepared sample
\* in the drawn order; entry i is the effect of row sample_idx[i] of the
\* prepared sample, computed from that row's covariates, and is the value
\* attached to row i of df_cf.
C4_EffectsAlignedToSubsample ==
    Done("subgroups") =>
        /\ Len(tau_hat) = Smaller(SampleCap, Len(df_clean))
        /\ Len(df_cf) = Len(tau_hat)
        /\ \A i, j \in DOMAIN sample_idx : i # j => sample_idx[i] # sample_idx[j]
        /\ \A i \in DOMAIN tau_hat :
            /\ sample_idx[i] \in DOMAIN df_clean
            /\ df_cf[i].rid = sample_idx[i]
            /\ df_cf[i].tau_hat = tau_hat[i]
            /\ tau_hat[i] =
                 EffectAt(CovRow(df_clean[sample_idx[i]], hetero_vars))

\* C4 witness: a finished run on more rows than the sub-sample takes, whose
\* first sampled row is not the first row and whose effects differ by row.
C4_Witness ==
    /\ pc = "done"
    /\ Len(df_clean) > SampleCap
    /\ sample_idx[1] # 1
    /\ Cardinality(Range(tau_hat)) > 1

\* C5 as stated: the names listed are those of the whole union, so their
\* number is n_controls_selected.
C5_NamesListTheUnion ==
    Done("save_lasso") =>
        /\ lasso_results.controls_selected = selected_names
        /\ Len(lasso_results.controls_selected)
             = lasso_results.n_controls_selected

\* The union U of the two selected index sets.
UnionSet == Range(selected_y) \cup Range(selected_d)

\* C5 amended: n_controls_selected is the size of the union U, and the names
\* listed are those of the first min(20, |U|) columns of U in ascending
\* column order, so the number of names equals n_controls_selected exactly
\* when U has at most 20 columns.
C5_NamesListAtMostTwenty ==
    Done("save_lasso") =>
        /\ lasso_results.n_controls_selected = Cardinality(UnionSet)
        /\ Len(lasso_results.controls_selected)
             = Smaller(NameCap, Cardinality(UnionSet))
        /\ \A j \in DOMAIN lasso_results.controls_selected :
             lasso_results.controls_selected[j]
               = control_cols[SortedSeq(UnionSet)[j]]
        /\ (Len(lasso_results.controls_selected)
              = lasso_results.n_controls_selected)
             <=> (Cardinality(UnionSet) <= NameCap)

\* C5 witness: a finished run whose union holds more than 20 columns.
C5_Witness ==
    /\ pc = "done"
    /\ Cardinality(UnionSet) > NameCap
    /\ Len(lasso_results.controls_selected) = NameCap

\* The treatment coefficient of OLS on the design d.
TreatmentCoefficient(d) == [of |-> "agri_post", design |-> d]

\* C6: when the union is empty the final regression does not fail; its
\* design is exactly the intercept and the treatment column, and the
\* coefficient reported is the treatment coefficient of that regression.
C6_EmptyUnionTreatmentOnly ==
    (Done("union") /\ UnionSet = {}) =>
        /\ ~FailedAt("ols") /\ ~FailedAt("save_lasso")
        /\ Done("ols") =>
             /\ X_final = << "const", "agri_post" >>
             /\ Param(results, 2)
                  = TreatmentCoefficient(<< "const", "agri_post" >>)
        /\ Done("save_lasso") =>
             /\ lasso_results.coefficient
                  = TreatmentCoefficient(<< "const", "agri_post" >>)
             /\ lasso_results.n_controls_selected = 0

\* C6 witness: a finished run in which neither step selected a column.
C6_Witness ==
    /\ pc = "done"
    /\ UnionSet = {}
    /\ Len(control_cols) > 0

\* C7: the output carries a DegenerateSelectionWarning flag whenever a
\* selection step or the union selected nothing, and carries none when the
\* union is not empty.
C7_DegenerateSelectionFlagged ==
    Done("save_lasso") =>
        /\ (Len(selected_y) = 0 \/ Len(selected_d) = 0 \/ UnionSet = {}) =>
             "DegenerateSelectionWarning" \in DOMAIN lasso_results
        /\ UnionSet # {} =>
             "DegenerateSelectionWarning" \notin DOMAIN lasso_results

\* C8: when both steps select every candidate, the final design is the
\* intercept, the treatment column and all candidates in their order, and
\* the reported coefficient is the treatment coefficient of OLS on it.
C8_FullSelectionIsPlainOLS ==
    (Done("ols") /\ Len(selected_y) = Len(control_cols)
                 /\ Len(selected_d) = Len(control_cols)) =>
        /\ X_final = << "const", "agri_post" >> \o control_cols
        /\ Param(results, 2)
             = TreatmentCoefficient(<< "const", "agri_post" >> \o control_cols)
        /\ Done("save_lasso") =>
             lasso_results.coefficient
               = TreatmentCoefficient(<< "const", "agri_post" >> \o control_cols)

\* C8 witness: a finished run in which both steps selected all of more than
\* 20 candidates.
C8_Witness ==
    /\ pc = "done"
    /\ Len(selected_y) = Len(control_cols)
    /\ Len(selected_d) = Len(control_cols)
    /\ Len(control_cols) > NameCap

\* C9: for every row the final effect is p * (control-side prediction) +
\* (1 - p) * (treated-side prediction) with p in [0, 1], so it lies between
\* the two predictions (all in units of 1/PScale).
C9_ConvexCombination ==
    Done("combine") =>
        /\ DOMAIN tau_hat = DOMAIN df_cf
        /\ \A i \in DOMAIN tau_hat :
            /\ e_x[i] \in 0..PScale
            /\ tau_hat[i] = e_x[i] * tau_0_pred[i]
                            + (PScale - e_x[i]) * tau_1_pred[i]
            /\ tau_hat[i] >= PScale * Smaller(tau_0_pred[i], tau_1_pred[i])
            /\ tau_hat[i] <= PScale * (IF tau_0_pred[i] > tau_1_pred[i]
                                       THEN tau_0_pred[i] ELSE tau_1_pred[i])

\* C9 witness: a row whose two predictions differ, whose propensity is
\* strictly between 0 and 1 and whose effect is strictly between the two.
C9_Witness ==
    /\ Done("combine")
    /\ \E i \in DOMAIN tau_hat :
        /\ tau_0_pred[i] # tau_1_pred[i]
        /\ e_x[i] > 0 /\ e_x[i] < PScale
        /\ tau_hat[i] > PScale * Smaller(tau_0_pred[i], tau_1_pred[i])
        /\ tau_hat[i] < PScale * (tau_0_pred[i] + tau_1_pred[i]
                                  - Smaller(tau_0_pred[i], tau_1_pred[i]))

\* The stage of the X-Learner each of its blocks belongs to: 1 outcome
\* modeling, 2 pseudo-outcomes, 3 effect modeling, 4 propensity modeling,
\* 5 combination.
StageOf(b) ==
    CASE b \in {"fit_mu0", "fit_mu1", "predict_mu"} -> 1
      [] b = "pseudo" -> 2
      [] b \in {"fit_tau0", "fit_tau1"} -> 3
      [] b = "fit_ps" -> 4
      [] b = "combine" -> 5

StageBlocks ==
    { "fit_mu0", "fit_mu1", "predict_mu", "pseudo", "fit_tau0", "fit_tau1",
      "fit_ps", "combine" }

\* C10: the blocks run so far go through the stages in increasing order;
\* none runs twice; a block of a stage runs only after every block of every
\* earlier stage has run; and a run that gets past the combination has run
\* them all.
C10_StagesInOrder ==
    /\ \A i, j \in DOMAIN trace :
         i < j => (StageOf(trace[i]) <= StageOf(trace[j]) /\ trace[i] # trace[j])
    /\ \A i \in DOMAIN trace :
         \A b \in StageBlocks :
            StageOf(b) < StageOf(trace[i]) =>
                \E j \in 1..(i - 1) : trace[j] = b
    /\ Done("combine") => Range(trace) = StageBlocks

\* C10 witness: a finished run, all eight blocks logged.
C10_Witness ==
    /\ pc = "done"
    /\ Len(trace) = 8

\* The columns of the data without the cluster identifier, and with one.
DropRegion(cols) ==
    LET keep == SortedSeq({i \in DOMAIN cols : cols[i].name # "region"})
    IN  [j \in DOMAIN keep |-> cols[keep[j]]]

WithRegion(cols) == DropRegion(cols) \o << RegionCol >>

\* The outputs of the double selection other than the covariance, as the
\* script computes them from data with the columns cols.
PointEstimate(cols, rows, l) ==
    LET cc == ControlCols(cols)
        sy == Selected(CoefVector(l.cy, Len(cc)))
        sd == Selected(CoefVector(l.cd, Len(cc)))
        u  == Union1d(sy, sd)
        d  == AddConstant(ColumnStack(NamesOf(u, cc)), rows)
    IN  [control_cols |-> cc, selected_y |-> sy, selected_d |-> sd,
         n_controls_selected |-> Len(u),
         coefficient |-> [of |-> d[2], design |-> d]]

\* C11: the cluster identifier is never a candidate control nor a column of
\* the final regression, and the candidates, both selected sets, the count
\* n_controls_selected and the treatment coefficient of a run are those of
\* the run on the same data without the cluster column and of the run on the
\* same data with one; only the covariance type follows the cluster column.
C11_ClusterOnlyInCovariance ==
    /\ "region" \notin Range(control_cols)
    /\ "region" \notin Range(X_final)
    /\ Done("ols") =>
         (results.cov_type = "cluster")
            <=> (\E i \in DOMAIN columns : columns[i].name = "region")
    /\ Done("save_lasso") =>
         LET here == [control_cols |-> control_cols,
                      selected_y |-> selected_y,
                      selected_d |-> selected_d,
                      n_controls_selected |->
                          lasso_results.n_controls_selected,
                      coefficient |-> lasso_results.coefficient]
         IN  /\ here = PointEstimate(DropRegion(columns), df_clean, lib)
             /\ here = PointEstimate(WithRegion(columns), df_clean, lib)

\* C11 witness: a finished run on data with a cluster column whose union is
\* not empty and whose covariance is clustered.
C11_Witness ==
    /\ pc = "done"
    /\ \E i \in DOMAIN columns : columns[i].name = "region"
    /\ lasso_results.std_error.cov_type = "cluster"
    /\ Len(selected_union) > 0
    /\ Len(selected_y) # Len(selected_d)

\* C12: every random draw of a run comes from a generator seeded with the
\* configured seed.
C12_EveryDrawSeeded ==
    \A i \in DOMAIN draws : draws[i].seed = Seed42

\* The columns of the table of results.
NormalFields ==
    { "method", "coefficient", "std_error", "p_value", "ci_lower", "ci_upper",
      "n_controls_selected", "controls_selected", "n_obs" }

\* C13: when a selection solver stops at its iteration cap, the run goes on
\* with the iterate it returned, and once the results are written the
\* non-convergence is on record: as a warning that was shown or as a flag
\* beside the normal columns of the results.
C13_NonConvergenceRecorded ==
    (lib.capped # "none" /\ Done("save_lasso")) =>
        \/ \E i \in DOMAIN warnings_shown : warnings_shown[i].at = lib.capped
        \/ DOMAIN lasso_results \ NormalFields # {}

\* C14: a run that has failed, at whatever block, has persisted no result.
C14_FailedRunPersistsNothing ==
    pc = "failed" => files = {}

\* C15: from the first selection fit to the final combination no file is
\* written.
C15_NoFileWrittenInsideEstimators ==
    (Done("controls") /\ ~Done("combine")) => files = {}

\* C16: no column of the candidate-control matrix and no column of the
\* X-Learner's covariate matrix holds a missing value or is constant.
C16_DesignMatricesClean ==
    /\ Done("controls") =>
         \A k \in DOMAIN control_cols : \A i \in DOMAIN columns :
            columns[i].name = control_cols[k] =>
                (~columns[i].hasna /\ ~columns[i].std0)
    /\ Done("hetero") =>
         \A k \in DOMAIN hetero_vars : \A i \in DOMAIN columns :
            columns[i].name = hetero_vars[k] =>
                (~columns[i].hasna /\ ~columns[i].std0)

\* The rows of the sub-sample in arm v, and the place of row i among the
\* rows of its own arm.
ArmRows(v) == {i \in DOMAIN df_cf : df_cf[i].agri = v}

ArmRank(i) ==
    Cardinality({k \in 1..i : df_cf[k].agri = df_cf[i].agri})

\* C17: the control arm's pseudo-effects are (treated outcome model's
\* prediction at the row) - (the row's outcome), the treated arm's are (the
\* row's outcome) - (control outcome model's prediction at the row); each
\* vector has one entry per row of its arm, in the arm's row order.
C17_PseudoEffectsPerArm ==
    Done("pseudo") =>
        /\ Len(D_0) = Cardinality(ArmRows(0))
        /\ Len(D_1) = Cardinality(ArmRows(1))
        /\ \A i \in ArmRows(0) :
             D_0[ArmRank(i)]
               = PredictReg(lib.reg, rf_1, X_cf[i]) - df_cf[i].ln_wage
        /\ \A i \in ArmRows(1) :
             D_1[ArmRank(i)]
               = df_cf[i].ln_wage - PredictReg(lib.reg, rf_0, X_cf[i])

\* C17 witness: pseudo-effects built for two control rows and a treated row,
\* with a nonzero entry in each arm.
C17_Witness ==
    /\ Done("pseudo")
    /\ Len(D_0) >= 2
    /\ \E j \in DOMAIN D_0 : D_0[j] # 0
    /\ \E j \in DOMAIN D_1 : D_1[j] # 0

\* C18: each outcome model and each effect model is trained on exactly the
\* rows of its own arm, in order, the outcome models with the outcome as
\* target and the effect models with their arm's pseudo-effects; the
\* propensity model is trained on every row with the treatment as target.
C18_ModelsTrainedOnOwnArm ==
    /\ "rf_0" \in fitted =>
         /\ Len(rf_0.x) = Cardinality(ArmRows(0))
         /\ Len(rf_0.y) = Cardinality(ArmRows(0))
         /\ \A i \in ArmRows(0) :
              /\ rf_0.x[ArmRank(i)] = X_cf[i]
              /\ rf_0.y[ArmRank(i)] = df_cf[i].ln_wage
    /\ "rf_1" \in fitted =>
         /\ Len(rf_1.x) = Cardinality(ArmRows(1))
         /\ Len(rf_1.y) = Cardinality(ArmRows(1))
         /\ \A i \in ArmRows(1) :
              /\ rf_1.x[ArmRank(i)] = X_cf[i]
              /\ rf_1.y[ArmRank(i)] = df_cf[i].ln_wage
    /\ "tau_0_model" \in fitted =>
         /\ Len(tau_0_model.x) = Cardinality(ArmRows(0))
         /\ tau_0_model.y = D_0
         /\ \A i \in ArmRows(0) : tau_0_model.x[ArmRank(i)] = X_cf[i]
    /\ "tau_1_model" \in fitted =>
         /\ Len(tau_1_model.x) = Cardinality(ArmRows(1))
         /\ tau_1_model.y = D_1
         /\ \A i \in ArmRows(1) : tau_1_model.x[ArmRank(i)] = X_cf[i]
    /\ "ps_model" \in fitted =>
         /\ ps_model.x = X_cf
         /\ DOMAIN ps_model.y = DOMAIN df_cf
         /\ \A i \in DOMAIN df_cf : ps_model.y[i] = df_cf[i].agri

\* C18 witness: all five ensembles fitted on a sub-sample in which a treated
\* row comes before a control row and the covariates differ between rows.
C18_Witness ==
    /\ fitted = {"rf_0", "rf_1", "tau_0_model", "tau_1_model", "ps_model"}
    /\ \E i, j \in DOMAIN df_cf :
         i < j /\ df_cf[i].agri = 1 /\ df_cf[j].agri = 0
    /\ Cardinality(Range(X_cf)) > 1
    /\ Len(df_cf) = SampleCap

\* The order of the double-selection protocol.
ProtocolOrder == << "lasso_y", "lasso_d", "union", "ols" >>

\* C19: the blocks of the double selection run in the order outcome
\* selection, treatment selection, union, final regression, each at most
\* once; both selection fits are given the same candidate columns in the
\* same order; and the final regression runs only after both selection
\* steps and the union, on the design built from them.
C19_SelectionProtocolInOrder ==
    /\ Len(ds_trace) <= Len(ProtocolOrder)
    /\ \A i \in DOMAIN ds_trace : ds_trace[i].step = ProtocolOrder[i]
    /\ Len(ds_trace) >= 2 =>
         /\ ds_trace[1].X = ds_trace[2].X
         /\ ds_trace[1].X = control_cols
    /\ Done("lasso_d") => (Len(coef_y) = Len(control_cols)
                           /\ Len(coef_d) = Len(control_cols))
    /\ Done("ols") => (Len(ds_trace) = 4 /\ ds_trace[4].X = X_final)

\* C19 witness: a finished run whose selection fits were given several
\* candidate columns.
C19_Witness ==
    /\ pc = "done"
    /\ Len(ds_trace) = 4
    /\ Len(ds_trace[1].X) > 1
    /\ Len(ds_trace[4].X) > 2

\* C20: the union lists exactly the indices selected by either step, each
\* once and each the index of a candidate column; the final design is the
\* intercept, the treatment, then the columns of the union; and the
\* coefficient, standard error and p-value reported are those of the
\* treatment column in that design, for an empty union as for any other.
C20_UnionAndTreatmentColumn ==
    /\ Done("union") =>
         /\ Range(selected_union) = UnionSet
         /\ Len(selected_union) = Cardinality(UnionSet)
         /\ Range(selected_union) \subseteq DOMAIN control_cols
    /\ Done("ols") =>
         /\ Len(X_final) = 2 + Cardinality(UnionSet)
         /\ X_final[1] = "const"
         /\ X_final[2] = "agri_post"
         /\ {X_final[j] : j \in 3..Len(X_final)}
              = {control_cols[i] : i \in UnionSet}
         /\ Cardinality({X_final[j] : j \in 3..Len(X_final)})
              = Cardinality(UnionSet)
    /\ Done("save_lasso") =>
         /\ lasso_results.coefficient.of = "agri_post"
         /\ lasso_results.coefficient.design = X_final
         /\ lasso_results.std_error.of = "agri_post"
         /\ lasso_results.std_error.design = X_final
         /\ lasso_results.p_value.test.of = "agri_post"
         /\ lasso_results.p_value.test.design = X_final

\* C20 witness: a finished run in which the two steps selected different,
\* overlapping sets, neither inside the other.
C20_Witness ==
    /\ pc = "done"
    /\ Range(selected_y) \cap Range(selected_d) # {}
    /\ Range(selected_y) \ Range(selected_d) # {}
    /\ Range(selected_d) \ Range(selected_y) # {}

\* The magnitude of a coefficient.
Magnitude(c) == IF c < 0 THEN -c ELSE c

C22_CovarianceFollowsClusterColumn ==
    /\ Done("ols") =>
         /\ results.cov_type \in {"cluster", "HC1"}
         /\ (\E i \in DOMAIN columns : columns[i].name = "region")
              => results.cov_type = "cluster"
         /\ (\A i \in DOMAIN columns : columns[i].name # "region")
              => results.cov_type = "HC1"
    /\ Done("save_lasso") =>
         /\ lasso_results.std_error.cov_type = results.cov_type
         /\ lasso_results.p_value.test.cov_type = results.cov_type

\* C22 witness: a finished run on data without a cluster column, reported
\* with the HC1 covariance.
C22_Witness ==
    /\ pc = "done"
    /\ \A i \in DOMAIN columns : columns[i].name # "region"
    /\ lasso_results.std_error.cov_type = "HC1"

\* C23: no block sets or reads numpy's process-wide generator: it is still
\* as the process started it, and no call has been made on it.
C23_GlobalGeneratorUntouched ==
    /\ np_random = Entropy
    /\ np_random_calls = << >>

\* The importances of the two effect models over the covariates.
Importance0 == Importances(tau_0_model, hetero_vars)

Importance1 == Importances(tau_1_model, hetero_vars)

\* C24: the importance table has one row per covariate, each covariate once;
\* a covariate's score is the mean of its importances in the two effect
\* models (scores in units of 1/2), so it lies in [0, 1]; and when the
\* importances of both models sum to 1 the scores sum to 1.
C24_ImportanceIsMeanOfBoth ==
    Done("importance") =>
        /\ Len(importance_df) = Len(hetero_vars)
        /\ \A k \in DOMAIN hetero_vars :
             /\ Cardinality({r \in DOMAIN importance_df :
                    importance_df[r].variable = hetero_vars[k]}) = 1
             /\ \A r \in DOMAIN importance_df :
                    importance_df[r].variable = hetero_vars[k] =>
                        importance_df[r].importance
                            = Importance0[k] + Importance1[k]
        /\ \A r \in DOMAIN importance_df :
             importance_df[r].importance \in 0..2
        /\ (SumOf(Importance0) = 1 /\ SumOf(Importance1) = 1) =>
             SumOf([r \in DOMAIN importance_df |->
                        importance_df[r].importance]) = 2

\* C24 witness: an importance table in which a covariate matters in one
\* effect model only, its score being one half.
C24_Witness ==
    /\ Done("importance")
    /\ Len(importance_df) >= 4
    /\ \E r \in DOMAIN importance_df : importance_df[r].importance = 1
    /\ SumOf(Importance0) # SumOf(Importance1)

\* C25: in the sub-sample every row is in exactly one of the two masks, and
\* n_treated and n_control are the sizes of the treated and control masks.
C25_MasksPartitionRows ==
    Done("hetero") =>
        /\ Range(Mask(df_cf, 0)) \cup Range(Mask(df_cf, 1)) = DOMAIN df_cf
        /\ Range(Mask(df_cf, 0)) \cap Range(Mask(df_cf, 1)) = {}
        /\ n_treated = Len(Mask(df_cf, 1))
        /\ n_control = Len(Mask(df_cf, 0))

\* The names the preparation step gives to the education indicators.
DummyNames == {"educ_0", "educ_1", "educ_2", "educ_3"}

\* C26: the covariate list of the X-Learner holds at most ten names, none
\* twice, each of them age, female, post, age_sq or a generated education
\* indicator; the outcome, the treatment columns and the raw educ_cat code
\* are not in it.
C26_CovariatesNamedOrIndicators ==
    Done("hetero") =>
        /\ Len(hetero_vars) <= HeteroCap
        /\ \A i, j \in DOMAIN hetero_vars :
             i # j => hetero_vars[i] # hetero_vars[j]
        /\ Range(hetero_vars)
             \subseteq {"age", "female", "post", "age_sq"} \cup DummyNames
        /\ Range(hetero_vars)
             \cap {"ln_wage", "agri", "agri_post", "educ_cat"} = {}


\* ------------------------------------------- properties of the RFSD scripts
\* The RFSD step s has run.
RfsdDone(s) ==
    LET at(x) == CHOOSE i \in DOMAIN RfsdSteps : RfsdSteps[i] = x
    IN  at(rfsd_pc) > at(s)

\* The lengths of the prefixes of a code that are keys of OKVED_TO_PRODUCT
\* (the code itself is its own longest prefix).
KeyPrefixes(okved) ==
    {n \in 0..Len(okved) : SubSeq(okved, 1, n) \in DOMAIN OKVED_TO_PRODUCT}

\* The category of the longest prefix of a code that is a key, None when no
\* prefix is.
LongestPrefixCategory(okved) ==
    IF KeyPrefixes(okved) = {} THEN None
    ELSE OKVED_TO_PRODUCT[SubSeq(okved, 1, MaxOf(KeyPrefixes(okved)))]

\* C27: classify_firm_product of compute_treatment_intensity.py gives every
\* non-null code the category of the code itself when it is a key of
\* OKVED_TO_PRODUCT, otherwise the category of its longest prefix that is a
\* key, and None only when no prefix of the code is a key.
C27_CategoryOfLongestKeyPrefix ==
    RfsdDone("classify") =>
        \A i \in DOMAIN df_firms :
            df_firms[i].okved # Null =>
                product_category[i] = LongestPrefixCategory(df_firms[i].okved)

\* C28: the three copies of classify_firm_product give every firm of the
\* file the same category.
C28_ThreeCopiesAgree ==
    RfsdDone("revenue") =>
        /\ product_mechanism = product_category
        /\ product_revenue = product_category

\* The six shares of a region added up, the first k of them.
RECURSIVE SumShares(_, _)
SumShares(share, k) ==
    IF k = 1 THEN share[Products[1]]
    ELSE Plus(SumShares(share, k - 1), share[Products[k]])

\* A float that is a number (neither NaN nor infinite) and is zero.
IsZero(x) == x.den > 0 /\ x.num = 0

\* C29: in compute_regional_measures every classified firm is a food/agri
\* firm; each of the six product shares of a region is in [0,1] and they sum
\* to at most 1; a region without food/agri firms has the six shares and both
\* treatment intensities equal to 0, never NaN.
C29_SharesBoundedAndZeroWithoutFoodFirms ==
    /\ RfsdDone("classify") =>
          \A i \in DOMAIN df_firms :
              product_category[i] # None => is_food_agri[i]
    /\ RfsdDone("shares") =>
          \A r \in DOMAIN regional_shares :
              /\ \A c \in Range(Products) :
                    /\ regional_shares[r].share[c].den > 0
                    /\ regional_shares[r].share[c].num >= 0
                    /\ regional_shares[r].share[c].num
                          <= regional_shares[r].share[c].den
              /\ SumShares(regional_shares[r].share, Len(Products)).num
                    <= SumShares(regional_shares[r].share, Len(Products)).den
              /\ regional_stats[r].food_agri_firms = 0 =>
                    \A c \in Range(Products) :
                        IsZero(regional_shares[r].share[c])
    /\ RfsdDone("intensity") =>
          \A r \in DOMAIN treatment_intensity :
              regional_stats[r].food_agri_firms = 0 =>
                  /\ IsZero(treatment_intensity[r].product)
                  /\ IsZero(treatment_intensity[r].combined)

\* C29 witness: a finished run on a file with a region without food/agri
\* firms next to a region with a classified firm.
C29_Witness ==
    /\ rfsd_pc = "done"
    /\ \E r \in DOMAIN regional_stats :
          /\ regional_stats[r].food_agri_firms = 0
          /\ regional_stats[r].total_firms > 0
    /\ \E r \in DOMAIN regional_stats, c \in Range(Products) :
          /\ regional_stats[r].n[c] > 0
          /\ treatment_intensity[r].product.num > 0

====
